---- MODULE Spec2Model ----
(***************************************************************************)
(* x86_64 address-space core of CharlotteCore: the Walker over the four    *)
(* table levels and the PageMap built on it (tag assignment, activation,  *)
(* map/unmap at three page sizes, free-region search).                     *)
(*                                                                         *)
(* Addresses are byte addresses.  Physical memory is a pool of 4 KiB       *)
(* frames; every frame holds one page table, kept as the function from    *)
(* the indices of its present entries to the entries.                      *)
(*                                                                         *)
(* Spec is one caller making calls on a handle, with the processor's      *)
(* translation cache and the frame allocator around it; SpecConc is two   *)
(* processors inside map_large_page on the same address space.            *)
(***************************************************************************)
EXTENDS Integers, Naturals, Sequences, FiniteSets, TLC

VARIABLES
    cr3,        \* PageMap.cr3: root table address | PCID
    mem,        \* physical memory: frame address -> page table contents
    free,       \* frames the physical frame allocator can still hand out
    held,       \* frames the rest of the kernel holds and can give back
    hw_cr3,     \* the processor's CR3 register
    tlb,        \* the processor's translation cache: a set of [vaddr, paddr, global]
    huge_ok,    \* *ARE_HUGE_PAGES_SUPPORTED
    origin,     \* how the handle was built: "try_new" or "from_cr3"
    tagged,     \* history: some set_pcid call on the handle returned Ok
    first_tag,  \* history: the argument of the first successful set_pcid
    last,       \* the last call made on the handle, with its result
    repeated,   \* history: the last call repeats the call before it
    halted,     \* a kernel panic has stopped the machine
    nops,       \* number of calls made so far
    procs       \* processors inside a map_large_page call on the address space

vars == <<cr3, mem, free, held, hw_cr3, tlb, huge_ok, origin, tagged, first_tag, last, repeated,
          halted, nops, procs>>

----------------------------------------------------------------------------
(* Bounds of the model *)

\* number of frames of physical memory after the reserved low frames
NFrames == 24
\* number of calls made on the handle in one run
MaxOps == 2

----------------------------------------------------------------------------
(* Program constants *)

PAGE_SIZE == 4096
N_PT_ENTRIES == 512
N_FRAMES_PD == 512
N_FRAMES_PDPT == 512 * 512
PCID_MASK == 4095

LARGE_PAGE_SIZE == N_PT_ENTRIES * PAGE_SIZE
HUGE_PAGE_SIZE == N_PT_ENTRIES * LARGE_PAGE_SIZE

None == -2

\* Frames of physical memory; the allocator hands them out lowest first.
FrameBase == 2 * PAGE_SIZE
Frames == { FrameBase + PAGE_SIZE * i : i \in 0 .. (NFrames - 1) }

Min(S) == CHOOSE x \in S : \A y \in S : x <= y

\* The element of a one-element set.  Only({ e(x) : x \in {v} }) is e with x
\* bound to the value of v: the steps of a call are chained this way, each
\* step working on the state the step before it left.
Only(S) == CHOOSE x \in S : TRUE

----------------------------------------------------------------------------
(* Address helpers (memory::address) *)

is_aligned_to(addr, alignment) == addr % alignment = 0
is_null(addr) == addr = 0
aligned_after(addr, alignment) ==
    IF addr % alignment = 0 THEN addr ELSE addr + (alignment - (addr % alignment))

pt_index(vaddr)   == (vaddr \div PAGE_SIZE) % N_PT_ENTRIES
pd_index(vaddr)   == (vaddr \div LARGE_PAGE_SIZE) % N_PT_ENTRIES
pdpt_index(vaddr) == (vaddr \div HUGE_PAGE_SIZE) % N_PT_ENTRIES
pml4_index(vaddr) == ((vaddr \div HUGE_PAGE_SIZE) \div N_PT_ENTRIES) % N_PT_ENTRIES

\* bitwise or of two naturals
RECURSIVE BitOr(_, _)
BitOr(a, b) ==
    IF a = 0 THEN b
    ELSE IF b = 0 THEN a
    ELSE (IF a % 2 = 1 \/ b % 2 = 1 THEN 1 ELSE 0) + 2 * BitOr(a \div 2, b \div 2)

----------------------------------------------------------------------------
(* PageMap accessors *)

get_pml4_paddr(c) == c - (c % (PCID_MASK + 1))
get_pcid(c) == c % (PCID_MASK + 1)

----------------------------------------------------------------------------
(* PageTable (page_table module): one frame of entries.  An entry is       *)
(* [addr, flags, ps]; ps is the page-size bit of a 2 MiB or 1 GiB leaf.    *)

EmptyTable == [i \in {} |-> 0]

Table(m, a) == IF a \in DOMAIN m THEN m[a] ELSE EmptyTable

SetEntry(t, idx, e) == [i \in (DOMAIN t) \cup {idx} |-> IF i = idx THEN e ELSE t[i]]

ClearEntry(t, idx) == [i \in (DOMAIN t) \ {idx} |-> t[i]]

WriteTable(m, a, t) == IF a \in DOMAIN m THEN [m EXCEPT ![a] = t] ELSE m

LevelIndex(vaddr, level) ==
    CASE level = "PML4" -> pml4_index(vaddr)
      [] level = "PDPT" -> pdpt_index(vaddr)
      [] level = "PD"   -> pd_index(vaddr)

\* PHYSICAL_FRAME_ALLOCATOR.lock().allocate(): the lowest free frame
allocate(fr) == IF fr = {} THEN None ELSE Min(fr)

\* A call in progress: s = [cr3, mem, free, w, err, out]; err = "" while no
\* step has failed, out is the value of the last table operation.
get_or_map_table(s, tbl, vaddr, level, flags) ==
    LET idx == LevelIndex(vaddr, level)
        t   == Table(s.mem, tbl)
    IN  IF idx \in DOMAIN t
        THEN IF t[idx].ps
             THEN [s EXCEPT !.err = "InvalidAddress", !.out = None]
             ELSE [s EXCEPT !.out = t[idx].addr]
        ELSE IF allocate(s.free) = None
             THEN [s EXCEPT !.err = "OutOfMemory", !.out = None]
             ELSE Only({ [s EXCEPT !.mem = WriteTable(zeroed, tbl,
                                      SetEntry(Table(zeroed, tbl), idx,
                                               [addr |-> allocate(s.free),
                                                flags |-> flags \cup {"Present"},
                                                ps |-> FALSE])),
                                   !.free = s.free \ {allocate(s.free)},
                                   !.out = allocate(s.free)]
                         : zeroed \in {WriteTable(s.mem, allocate(s.free), EmptyTable)} })

IsLeafSize(size) == size \in {"Large", "Huge"}

PageTable_map_page(s, tbl, size, index, paddr, flags) ==
    LET e == [addr |-> paddr, flags |-> flags \cup {"Present"}, ps |-> IsLeafSize(size)]
    IN  [s EXCEPT !.mem = WriteTable(s.mem, tbl, SetEntry(Table(s.mem, tbl), index, e)),
                  !.out = None]

PageTable_unmap_page(s, tbl, size, index) ==
    LET t == Table(s.mem, tbl)
    IN  IF index \in DOMAIN t /\ t[index].ps = IsLeafSize(size)
        THEN [s EXCEPT !.mem = WriteTable(s.mem, tbl, ClearEntry(t, index)),
                       !.out = t[index].addr]
        ELSE [s EXCEPT !.err = "NotMapped", !.out = None]

----------------------------------------------------------------------------
(* Walker *)

Walker_new == [pml4 |-> None, pdpt |-> None, pd |-> None, pt |-> None]

walk_cr3(s) == [s EXCEPT !.w.pml4 = get_pml4_paddr(s.cr3)]

\* s1 is the walker once the level above is filled, r the table lookup in it
walk_pml4(s, vaddr, flags) ==
    Only({ Only({ IF r.err # "" THEN r ELSE [r EXCEPT !.w.pdpt = r.out]
                  : r \in {get_or_map_table(s1, s1.w.pml4, vaddr, "PML4", flags)} })
           : s1 \in {IF s.w.pml4 = None THEN walk_cr3(s) ELSE s} })

walk_pdpt(s, vaddr, flags) ==
    Only({ IF s1.err # "" THEN s1
           ELSE Only({ IF r.err # "" THEN r ELSE [r EXCEPT !.w.pd = r.out]
                       : r \in {get_or_map_table(s1, s1.w.pdpt, vaddr, "PDPT", flags)} })
           : s1 \in {IF s.w.pdpt = None THEN walk_pml4(s, vaddr, flags) ELSE s} })

\* The table found below the PD is stored in the walker's pd slot (line 97).
walk_pd(s, vaddr, flags) ==
    Only({ IF s1.err # "" THEN s1
           ELSE Only({ IF r.err # "" THEN r ELSE [r EXCEPT !.w.pd = r.out]
                       : r \in {get_or_map_table(s1, s1.w.pd, vaddr, "PD", flags)} })
           : s1 \in {IF s.w.pd = None THEN walk_pdpt(s, vaddr, flags) ELSE s} })

----------------------------------------------------------------------------
(* The processor's view of an address space: the translation of vaddr     *)
(* through the hierarchy rooted at c, or NotMapped.                        *)

NotMapped == -1

Translate(m, c, vaddr) ==
    LET t4 == Table(m, get_pml4_paddr(c))
    IN  IF pml4_index(vaddr) \notin DOMAIN t4 THEN NotMapped
        ELSE LET t3 == Table(m, t4[pml4_index(vaddr)].addr)
             IN  IF pdpt_index(vaddr) \notin DOMAIN t3 THEN NotMapped
                 ELSE LET e3 == t3[pdpt_index(vaddr)]
                      IN  IF e3.ps THEN e3.addr + (vaddr % HUGE_PAGE_SIZE)
                          ELSE LET t2 == Table(m, e3.addr)
                               IN  IF pd_index(vaddr) \notin DOMAIN t2 THEN NotMapped
                                   ELSE LET e2 == t2[pd_index(vaddr)]
                                        IN  IF e2.ps THEN e2.addr + (vaddr % LARGE_PAGE_SIZE)
                                            ELSE LET t1 == Table(m, e2.addr)
                                                 IN  IF pt_index(vaddr) \notin DOMAIN t1
                                                     THEN NotMapped
                                                     ELSE t1[pt_index(vaddr)].addr
                                                          + (vaddr % PAGE_SIZE)

\* the level of the leaf that translates vaddr: "PDPT" (1 GiB), "PD" (2 MiB),
\* "PT" (4 KiB), or "none"
MappedAt(m, c, vaddr) ==
    LET t4 == Table(m, get_pml4_paddr(c))
    IN  IF pml4_index(vaddr) \notin DOMAIN t4 THEN "none"
        ELSE LET t3 == Table(m, t4[pml4_index(vaddr)].addr)
             IN  IF pdpt_index(vaddr) \notin DOMAIN t3 THEN "none"
                 ELSE LET e3 == t3[pdpt_index(vaddr)]
                      IN  IF e3.ps THEN "PDPT"
                          ELSE LET t2 == Table(m, e3.addr)
                               IN  IF pd_index(vaddr) \notin DOMAIN t2 THEN "none"
                                   ELSE LET e2 == t2[pd_index(vaddr)]
                                        IN  IF e2.ps THEN "PD"
                                            ELSE IF pt_index(vaddr) \in DOMAIN Table(m, e2.addr)
                                                 THEN "PT"
                                                 ELSE "none"

\* the leaf entry that translates vaddr, or NoLeaf
NoLeaf == [addr |-> NotMapped, flags |-> {}, ps |-> FALSE]

Leaf(m, c, vaddr) ==
    LET lvl == MappedAt(m, c, vaddr)
        t3  == Table(m, Table(m, get_pml4_paddr(c))[pml4_index(vaddr)].addr)
        t2  == Table(m, t3[pdpt_index(vaddr)].addr)
        t1  == Table(m, t2[pd_index(vaddr)].addr)
    IN  CASE lvl = "none" -> NoLeaf
          [] lvl = "PDPT" -> t3[pdpt_index(vaddr)]
          [] lvl = "PD"   -> t2[pd_index(vaddr)]
          [] lvl = "PT"   -> t1[pt_index(vaddr)]

----------------------------------------------------------------------------
(* The translation cache of the processor *)

\* the addresses the processor accesses
Touched == {LARGE_PAGE_SIZE}

\* invlpg: drops the cached translation of vaddr.  No call of PageMap uses it.
invalidate_tlb_entry(t, vaddr) == { e \in t : e.vaddr # vaddr }

\* mov cr3: drops the cached translations of pages that are not global
mov_cr3(t) == { e \in t : e.global }

----------------------------------------------------------------------------
(* PageMap::is_range_available *)

\* The body of the probe loops (lines 173-184, 188-196, 200-208): the walks
\* to vaddr, each made only if the one before it returned Ok; the first loop
\* calls walk_pd twice.
Probe(s, vaddr, twice) ==
    Only({
      IF a.err # "" THEN a
      ELSE Only({
        IF b.err # "" THEN b
        ELSE Only({ IF c.err # "" \/ ~twice THEN c ELSE walk_pd(c, vaddr, {})
                    : c \in {walk_pd(b, vaddr, {})} })
        : b \in {walk_pdpt(a, vaddr, {})} })
      : a \in {walk_pml4(s, vaddr, {})} })

\* One of the three probe loops: n probes from vaddr at stride step.
RECURSIVE ProbeLoop(_, _, _, _, _)
ProbeLoop(s, vaddr, n, step, twice) ==
    IF n = 0 THEN [s |-> s, vaddr |-> vaddr, ok |-> TRUE]
    ELSE Only({ IF d.err # "" THEN [s |-> d, vaddr |-> vaddr, ok |-> FALSE]
                ELSE ProbeLoop(d, vaddr + step, n - 1, step, twice)
                : d \in {Probe(s, vaddr, twice)} })

n_huge_pages(size)  == size \div N_FRAMES_PDPT
n_large_pages(size) == (size % N_FRAMES_PDPT) \div N_FRAMES_PD
n_pages(size)       == (((size % N_FRAMES_PDPT) % N_FRAMES_PD) \div 4096) + 1

is_range_available(s, start, size) ==
    Only({
      IF ~h.ok THEN [s |-> h.s, ok |-> FALSE]
      ELSE Only({
        IF ~l.ok THEN [s |-> l.s, ok |-> FALSE]
        ELSE Only({ [s |-> p.s, ok |-> p.ok]
                    : p \in {ProbeLoop(l.s, l.vaddr, n_pages(size), 4096, FALSE)} })
        : l \in {ProbeLoop(h.s, h.vaddr, n_large_pages(size),
                           N_FRAMES_PD * 4096, FALSE)} })
      : h \in {ProbeLoop([s EXCEPT !.w = Walker_new, !.err = "", !.out = None],
                         start, n_huge_pages(size), N_FRAMES_PDPT * 4096, TRUE)} })

\* a candidate loop that passes over a candidate whose probes created a table
RECURSIVE Scan_skip_created(_, _, _, _, _)
Scan_skip_created(s, addr, end, alignment, size) ==
    IF addr >= end THEN [s |-> s, res |-> "VAddrRangeUnavailable", val |-> NotMapped]
    ELSE Only({ IF r.ok /\ r.s.free = s.free THEN [s |-> r.s, res |-> "Ok", val |-> addr]
                ELSE Scan_skip_created(r.s, addr + alignment, end, alignment, size)
                : r \in {is_range_available(s, addr, size)} })

\* the candidate loop of find_available_region (lines 419-425)
RECURSIVE Scan(_, _, _, _, _)
Scan(s, addr, end, alignment, size) ==
    IF addr >= end THEN [s |-> s, res |-> "VAddrRangeUnavailable", val |-> NotMapped]
    ELSE Only({ IF r.ok THEN [s |-> r.s, res |-> "Ok", val |-> addr]
                ELSE Scan(r.s, addr + alignment, end, alignment, size)
                : r \in {is_range_available(s, addr, size)} })

----------------------------------------------------------------------------
(* PageMap::get_flags *)

MemTypes == {"KernelReadWrite", "KernelReadOnly", "KernelReadExecute"}

\* The flag bits of a page table entry, one name per bit.
PteFlags == {"Present", "Write", "User", "WriteThrough", "NoExecute", "Global"}

\* get_flags with the KernelReadWrite arm lacking NoExecute.
get_flags_rw_executable(mem_type) ==
    CASE mem_type = "KernelReadWrite" -> {"Present", "Write", "Global", "WriteThrough"}
      [] mem_type = "KernelReadOnly" -> {"Present", "NoExecute", "Global", "WriteThrough"}
      [] mem_type = "KernelReadExecute" -> {"Present", "Global", "WriteThrough"}

get_flags(mem_type) ==
    CASE mem_type = "KernelReadWrite" ->
            {"Present", "Write", "NoExecute", "Global", "WriteThrough"}
      [] mem_type = "KernelReadOnly" ->
            {"Present", "NoExecute", "Global", "WriteThrough"}
      [] mem_type = "KernelReadExecute" ->
            {"Present", "Global", "WriteThrough"}

----------------------------------------------------------------------------
(* Inputs of the calls *)

VAddrs == {0, PAGE_SIZE, PAGE_SIZE + 1, LARGE_PAGE_SIZE,
           LARGE_PAGE_SIZE + PAGE_SIZE, HUGE_PAGE_SIZE}
PAddrs == {HUGE_PAGE_SIZE}
FlagSets == {get_flags("KernelReadWrite"), get_flags("KernelReadExecute")}
Pcids == {0, 1, PCID_MASK + 1}
Sizes == {PAGE_SIZE, 2 * PAGE_SIZE}
Alignments == {PAGE_SIZE, LARGE_PAGE_SIZE}
Starts == {PAGE_SIZE, LARGE_PAGE_SIZE}
\* the searched range is [start, start + span)
Spans == {PAGE_SIZE, 3 * PAGE_SIZE}
\* a size and an alignment below one page
SubPage == PAGE_SIZE \div 2
\* <<size, alignment, start, end>> of a search
FindArgs ==
    { <<sz, al, st, st + sp>> : sz \in Sizes, al \in Alignments, st \in Starts, sp \in Spans }
    \cup { <<SubPage, PAGE_SIZE, PAGE_SIZE, 2 * PAGE_SIZE>>,
           <<PAGE_SIZE, SubPage, PAGE_SIZE, 2 * PAGE_SIZE>>,
           <<SubPage, SubPage, PAGE_SIZE + 1, 2 * PAGE_SIZE>>,
           <<PAGE_SIZE, SubPage, PAGE_SIZE + 1, 2 * PAGE_SIZE>> }

----------------------------------------------------------------------------
(* The address space the machine boots on: one 4 KiB page mapped at       *)
(* BootVAddr through a PML4, a PDPT, a PD and a PT in the four lowest     *)
(* frames.                                                                 *)

BootRoot == FrameBase
BootPdpt == FrameBase + PAGE_SIZE
BootPd   == FrameBase + (2 * PAGE_SIZE)
BootPt   == FrameBase + (3 * PAGE_SIZE)
BootFrames == {BootRoot, BootPdpt, BootPd, BootPt}
BootVAddr == PAGE_SIZE
BootPAddr == 6 * LARGE_PAGE_SIZE

TableEntry(a) == [addr |-> a, flags |-> {"Present", "Write"}, ps |-> FALSE]

BootMem ==
    [f \in Frames |->
        IF f = BootRoot THEN SetEntry(EmptyTable, pml4_index(BootVAddr), TableEntry(BootPdpt))
        ELSE IF f = BootPdpt THEN SetEntry(EmptyTable, pdpt_index(BootVAddr), TableEntry(BootPd))
        ELSE IF f = BootPd THEN SetEntry(EmptyTable, pd_index(BootVAddr), TableEntry(BootPt))
        ELSE IF f = BootPt THEN SetEntry(EmptyTable, pt_index(BootVAddr),
                                         [addr |-> BootPAddr,
                                          flags |-> get_flags("KernelReadWrite"),
                                          ps |-> FALSE])
        ELSE EmptyTable]

\* the CR3 values from_cr3 is given: the boot root, without and with PCID bits
BootCr3s == {BootRoot, BootRoot + 1}

\* how many frames the allocator holds when the handle is built
AvailChoices == {2, NFrames - 4}

LowestN(S, n) == {x \in S : Cardinality({y \in S : y < x}) < n}

NoCall == [op |-> "none", vaddr |-> 0, paddr |-> 0, flags |-> {}, size |-> 0,
           alignment |-> 0, start |-> 0, end |-> 0, pcid |-> 0,
           res |-> "none", val |-> NotMapped, freed |-> FALSE]

\* PageMap::try_new: the root is a frame of the allocator
try_new(avail) ==
    /\ cr3 = allocate(avail)
    /\ free = avail \ {allocate(avail)}
    /\ hw_cr3 = BootRoot
    /\ origin = "try_new"

\* PageMap::from_cr3 on the value of the CR3 register
from_cr3(avail, c) ==
    /\ cr3 = c
    /\ free = avail
    /\ hw_cr3 = c
    /\ origin = "from_cr3"

\* the processors that can be inside a call on the address space
Procs == {"cpu0", "cpu1"}

\* a processor about to call map_large_page(vaddr, ...)
IdleCpu(vaddr) == [pc |-> "idle", vaddr |-> vaddr, level |-> "PML4", tbl |-> None,
                   res |-> "none"]

\* no processor is inside a call
Idle == [sync |-> "lock", lock |-> "", cpu |-> [p \in Procs |-> IdleCpu(0)]]

\* the state after the handle is built
Boot ==
    /\ mem = BootMem
    /\ huge_ok \in BOOLEAN
    /\ tlb = {}
    /\ \E n \in AvailChoices :
         LET avail == LowestN(Frames \ BootFrames, n)
         IN  /\ held = (Frames \ BootFrames) \ avail
             /\ \/ try_new(avail)
                \/ \E c \in BootCr3s : from_cr3(avail, c)
    /\ tagged = FALSE
    /\ first_tag = 0
    /\ last = NoCall
    /\ repeated = FALSE
    /\ halted = FALSE
    /\ nops = 0

Init == Boot /\ procs = Idle

----------------------------------------------------------------------------
(* Calls on the handle *)

CanCall == ~halted /\ nops < MaxOps

\* call is the call made on the handle just after the call that ended as l,
\* no frame having been given back to the allocator in between
SameCall(l, call) == [l EXCEPT !.res = "none", !.val = NotMapped] = call

Start == [cr3 |-> cr3, mem |-> mem, free |-> free, w |-> Walker_new,
          err |-> "", out |-> None]

\* the call returns res (and val); the tables and the allocator are as s left them
Return(call, s, res, val) ==
    /\ mem' = s.mem
    /\ free' = s.free
    /\ last' = [call EXCEPT !.res = res, !.val = val]
    /\ repeated' = SameCall(last, call)
    /\ halted' = FALSE
    /\ nops' = nops + 1
    /\ UNCHANGED <<cr3, held, hw_cr3, tlb, huge_ok, origin, tagged, first_tag, procs>>

\* Option::unwrap on None: the kernel panics
Panic(call, s) ==
    /\ mem' = s.mem
    /\ free' = s.free
    /\ last' = [call EXCEPT !.res = "Panic", !.val = NotMapped]
    /\ repeated' = SameCall(last, call)
    /\ halted' = TRUE
    /\ nops' = nops + 1
    /\ UNCHANGED <<cr3, held, hw_cr3, tlb, huge_ok, origin, tagged, first_tag, procs>>

\* the tail of a call that does not return the error of its walk
Finish_ignores_walk_error(call, s, slot, r) ==
    IF slot = None THEN Panic(call, s)
    ELSE IF r.err # "" THEN Return(call, r, r.err, NotMapped)
    ELSE Return(call, r, "Ok", IF r.out = None THEN NotMapped ELSE r.out)

\* the tail of a map or unmap call: s is the walk, slot the walker level unwrapped
Finish(call, s, slot, r) ==
    IF s.err # "" THEN Return(call, s, s.err, NotMapped)
    ELSE IF slot = None THEN Panic(call, s)
    ELSE IF r.err # "" THEN Return(call, r, r.err, NotMapped)
    ELSE Return(call, r, "Ok", IF r.out = None THEN NotMapped ELSE r.out)

set_pcid(pcid) ==
    /\ CanCall
    /\ LET call == [NoCall EXCEPT !.op = "set_pcid", !.pcid = pcid]
       IN  /\ repeated' = SameCall(last, call)
           /\ IF get_pcid(cr3) # 0
              THEN /\ last' = [call EXCEPT !.res = "AlredyHasPcid"]
                   /\ UNCHANGED <<cr3, tagged, first_tag>>
              ELSE /\ cr3' = BitOr(get_pml4_paddr(cr3), pcid)
                   /\ last' = [call EXCEPT !.res = "Ok"]
                   /\ tagged' = TRUE
                   /\ first_tag' = IF tagged THEN first_tag ELSE pcid
    /\ nops' = nops + 1
    /\ UNCHANGED <<mem, free, held, hw_cr3, tlb, huge_ok, origin, halted, procs>>

load ==
    /\ CanCall
    /\ LET call == [NoCall EXCEPT !.op = "load"]
       IN  /\ repeated' = SameCall(last, call)
           /\ IF get_pcid(cr3) # 0
              THEN /\ hw_cr3' = cr3
                   /\ tlb' = mov_cr3(tlb)
                   /\ last' = [call EXCEPT !.res = "Ok"]
              ELSE /\ last' = [call EXCEPT !.res = "InvalidPcid"]
                   /\ UNCHANGED <<hw_cr3, tlb>>
    /\ nops' = nops + 1
    /\ UNCHANGED <<cr3, mem, free, held, huge_ok, origin, tagged, first_tag, halted, procs>>

map_page(vaddr, paddr, flags) ==
    /\ CanCall
    /\ LET call == [NoCall EXCEPT !.op = "map_page", !.vaddr = vaddr,
                                  !.paddr = paddr, !.flags = flags]
       IN  IF ~is_aligned_to(vaddr, PAGE_SIZE)
           THEN Return(call, Start, "InvalidVAddrAlignment", NotMapped)
           ELSE IF is_null(vaddr)
           THEN Return(call, Start, "InvalidAddress", NotMapped)
           ELSE \E s \in {walk_pd(Start, vaddr, flags)} :
                    Finish(call, s, s.w.pt,
                           PageTable_map_page(s, s.w.pt, "Standard", pt_index(vaddr),
                                              paddr, flags))

unmap_page(vaddr) ==
    /\ CanCall
    /\ LET call == [NoCall EXCEPT !.op = "unmap_page", !.vaddr = vaddr]
       IN  \E s \in {walk_pd(Start, vaddr, {})} :
               Finish(call, s, s.w.pt,
                      PageTable_unmap_page(s, s.w.pt, "Standard", pt_index(vaddr)))

map_large_page(vaddr, paddr, flags) ==
    /\ CanCall
    /\ LET call == [NoCall EXCEPT !.op = "map_large_page", !.vaddr = vaddr,
                                  !.paddr = paddr, !.flags = flags]
       IN  \E s \in {walk_pdpt(Start, vaddr, flags)} :
               Finish(call, s, s.w.pd,
                      PageTable_map_page(s, s.w.pd, "Large", pd_index(vaddr), paddr, flags))

unmap_large_page(vaddr) ==
    /\ CanCall
    /\ LET call == [NoCall EXCEPT !.op = "unmap_large_page", !.vaddr = vaddr]
       IN  \E s \in {walk_pdpt(Start, vaddr, {})} :
               Finish(call, s, s.w.pd,
                      PageTable_unmap_page(s, s.w.pd, "Large", pd_index(vaddr)))

\* map_huge_page without the check of ARE_HUGE_PAGES_SUPPORTED
map_huge_page_ungated(vaddr, paddr, flags) ==
    /\ CanCall
    /\ LET call == [NoCall EXCEPT !.op = "map_huge_page", !.vaddr = vaddr,
                                  !.paddr = paddr, !.flags = flags]
       IN  \E s \in {walk_pml4(Start, vaddr, flags)} :
               Finish(call, s, s.w.pdpt,
                      PageTable_map_page(s, s.w.pdpt, "Huge", pdpt_index(vaddr),
                                         paddr, flags))

map_huge_page(vaddr, paddr, flags) ==
    /\ CanCall
    /\ LET call == [NoCall EXCEPT !.op = "map_huge_page", !.vaddr = vaddr,
                                  !.paddr = paddr, !.flags = flags]
       IN  IF ~huge_ok
           THEN Return(call, Start, "UnsupportedOperation", NotMapped)
           ELSE \E s \in {walk_pml4(Start, vaddr, flags)} :
                    Finish(call, s, s.w.pdpt,
                           PageTable_map_page(s, s.w.pdpt, "Huge", pdpt_index(vaddr),
                                              paddr, flags))

unmap_huge_page(vaddr) ==
    /\ CanCall
    /\ LET call == [NoCall EXCEPT !.op = "unmap_huge_page", !.vaddr = vaddr]
       IN  IF ~huge_ok
           THEN Return(call, Start, "UnsupportedOperation", NotMapped)
           ELSE \E s \in {walk_pml4(Start, vaddr, {})} :
                    Finish(call, s, s.w.pdpt,
                           PageTable_unmap_page(s, s.w.pdpt, "Huge", pdpt_index(vaddr)))

\* find_available_region with the check of alignment made before the check
\* of size
find_available_region_alignment_first(size, alignment, start, end) ==
    /\ CanCall
    /\ LET call == [NoCall EXCEPT !.op = "find_available_region", !.size = size,
                                  !.alignment = alignment, !.start = start, !.end = end]
       IN  IF alignment < 4096
           THEN Return(call, Start, "InvalidArgument", NotMapped)
           ELSE IF size < 4096
           THEN Return(call, Start, "SubPageSizeNotAllowed", NotMapped)
           ELSE IF ~is_aligned_to(start, alignment)
           THEN Return(call, Start, "InvalidVAddrAlignment", NotMapped)
           ELSE \E r \in {Scan(Start, aligned_after(start, alignment), end,
                                alignment, size)} :
                    Return(call, r.s, r.res, r.val)

find_available_region(size, alignment, start, end) ==
    /\ CanCall
    /\ LET call == [NoCall EXCEPT !.op = "find_available_region", !.size = size,
                                  !.alignment = alignment, !.start = start, !.end = end]
       IN  IF size < 4096
           THEN Return(call, Start, "SubPageSizeNotAllowed", NotMapped)
           ELSE IF alignment < 4096
           THEN Return(call, Start, "InvalidArgument", NotMapped)
           ELSE IF ~is_aligned_to(start, alignment)
           THEN Return(call, Start, "InvalidVAddrAlignment", NotMapped)
           ELSE \E r \in {Scan(Start, aligned_after(start, alignment), end,
                                alignment, size)} :
                    Return(call, r.s, r.res, r.val)

\* The processor accesses vaddr: a translation that is not cached is read
\* from the tables of the loaded address space and cached.
access(vaddr) ==
    /\ ~halted
    /\ \A e \in tlb : e.vaddr # vaddr
    /\ Translate(mem, hw_cr3, vaddr) # NotMapped
    /\ tlb' = tlb \cup {[vaddr |-> vaddr, paddr |-> Translate(mem, hw_cr3, vaddr),
                         global |-> "Global" \in Leaf(mem, hw_cr3, vaddr).flags]}
    /\ UNCHANGED <<cr3, mem, free, held, hw_cr3, huge_ok, origin, tagged, first_tag, last,
                   repeated, halted, nops, procs>>

\* The allocator has run out of frames: the rest of the kernel gives the
\* frames it holds back to it.
deallocate ==
    /\ ~halted
    /\ free = {}
    /\ held # {}
    /\ free' = free \cup held
    /\ held' = {}
    /\ last' = [last EXCEPT !.freed = TRUE]
    /\ UNCHANGED <<cr3, mem, hw_cr3, tlb, huge_ok, origin, tagged, first_tag, repeated,
                   halted, nops, procs>>

Next ==
    \/ \E pcid \in Pcids : set_pcid(pcid)
    \/ load
    \/ \E v \in VAddrs, p \in PAddrs, f \in FlagSets : map_page(v, p, f)
    \/ \E v \in VAddrs : unmap_page(v)
    \/ \E v \in VAddrs, p \in PAddrs, f \in FlagSets : map_large_page(v, p, f)
    \/ \E v \in VAddrs : unmap_large_page(v)
    \/ \E v \in VAddrs, p \in PAddrs, f \in FlagSets : map_huge_page(v, p, f)
    \/ \E v \in VAddrs : unmap_huge_page(v)
    \/ \E a \in FindArgs : find_available_region(a[1], a[2], a[3], a[4])
    \/ \E v \in Touched : access(v)
    \/ deallocate

Spec == Init /\ [][Next]_vars

----------------------------------------------------------------------------
(* Two processors calling map_large_page on the same address space (two    *)
(* handles built by from_cr3 on one root value, or one handle shared).     *)
(* A call is the sequence of its reads and writes of table entries:        *)
(* get_or_map_table reads the entry, and when it is absent takes a frame,  *)
(* zeroes it and writes the entry.  With sync = "lock" the caller holds    *)
(* the address space's lock for the whole call.                            *)

\* the address each processor maps
CpuVAddrs(p) == IF p = "cpu0" THEN {LARGE_PAGE_SIZE}
                ELSE {2 * LARGE_PAGE_SIZE, HUGE_PAGE_SIZE + LARGE_PAGE_SIZE}
CpuPAddr == Only(PAddrs)
CpuFlags == get_flags("KernelReadWrite")

ConcInit ==
    /\ Boot
    /\ \E sync \in {"lock", "none"} :
         \E v \in [Procs -> VAddrs \cup UNION { CpuVAddrs(p) : p \in Procs }] :
            /\ \A p \in Procs : v[p] \in CpuVAddrs(p)
            /\ procs = [sync |-> sync, lock |-> "",
                        cpu |-> [p \in Procs |-> IdleCpu(v[p])]]

\* the walker of p goes down to the table at a
Descend(c, a) ==
    IF c.level = "PML4" THEN [c EXCEPT !.pc = "lookup", !.level = "PDPT", !.tbl = a]
    ELSE [c EXCEPT !.pc = "leaf", !.level = "PD", !.tbl = a]

\* the call of p returns res (and the lock is released)
Returned(p, c, res) ==
    [procs EXCEPT !.lock = IF @ = p THEN "" ELSE @,
                  !.cpu[p] = [c EXCEPT !.pc = "done", !.res = res]]

ConcUnchanged ==
    UNCHANGED <<cr3, held, hw_cr3, tlb, huge_ok, origin, tagged, first_tag, last,
                repeated, halted, nops>>

\* a caller that does not take the lock of the address space
cpu_begin_unlocked(p) ==
    /\ procs.cpu[p].pc = "idle"
    /\ procs' = [procs EXCEPT !.cpu[p] = [@ EXCEPT !.pc = "lookup", !.level = "PML4",
                                                  !.tbl = get_pml4_paddr(cr3)]]
    /\ UNCHANGED <<mem, free>>
    /\ ConcUnchanged

\* map_large_page is called: Walker::new and walk_cr3
cpu_begin(p) ==
    /\ procs.cpu[p].pc = "idle"
    /\ procs.sync = "lock" => procs.lock = ""
    /\ procs' = [procs EXCEPT !.lock = IF procs.sync = "lock" THEN p ELSE "",
                              !.cpu[p] = [@ EXCEPT !.pc = "lookup", !.level = "PML4",
                                                  !.tbl = get_pml4_paddr(cr3)]]
    /\ UNCHANGED <<mem, free>>
    /\ ConcUnchanged

\* get_or_map_table reads the entry of vaddr in the walker's table
cpu_lookup(p) ==
    /\ procs.cpu[p].pc = "lookup"
    /\ LET c   == procs.cpu[p]
           idx == LevelIndex(c.vaddr, c.level)
           tb  == Table(mem, c.tbl)
       IN  procs' = IF idx \in DOMAIN tb
                    THEN IF tb[idx].ps THEN Returned(p, c, "InvalidAddress")
                         ELSE [procs EXCEPT !.cpu[p] = Descend(c, tb[idx].addr)]
                    ELSE [procs EXCEPT !.cpu[p] = [c EXCEPT !.pc = "create"]]
    /\ UNCHANGED <<mem, free>>
    /\ ConcUnchanged

\* get_or_map_table found the entry absent: it takes a frame, zeroes it and
\* writes the entry
cpu_create(p) ==
    /\ procs.cpu[p].pc = "create"
    /\ LET c   == procs.cpu[p]
           idx == LevelIndex(c.vaddr, c.level)
           new == allocate(free)
       IN  IF new = None
           THEN /\ procs' = Returned(p, c, "OutOfMemory")
                /\ UNCHANGED <<mem, free>>
           ELSE /\ \E zeroed \in {WriteTable(mem, new, EmptyTable)} :
                      mem' = WriteTable(zeroed, c.tbl,
                                SetEntry(Table(zeroed, c.tbl), idx,
                                         [addr |-> new, flags |-> CpuFlags \cup {"Present"},
                                          ps |-> FALSE]))
                /\ free' = free \ {new}
                /\ procs' = [procs EXCEPT !.cpu[p] = Descend(c, new)]
    /\ ConcUnchanged

\* walker.pd.unwrap().map_page(PageSize::Large, vaddr.pd_index(), paddr, flags)
cpu_map_page(p) ==
    /\ procs.cpu[p].pc = "leaf"
    /\ LET c == procs.cpu[p]
       IN  /\ mem' = PageTable_map_page(Start, c.tbl, "Large", pd_index(c.vaddr),
                                        CpuPAddr, CpuFlags).mem
           /\ procs' = Returned(p, c, "Ok")
    /\ UNCHANGED free
    /\ ConcUnchanged

ConcNext ==
    \E p \in Procs :
        \/ cpu_begin(p)
        \/ cpu_lookup(p)
        \/ cpu_create(p)
        \/ cpu_map_page(p)

SpecConc == ConcInit /\ [][ConcNext]_vars

----------------------------------------------------------------------------
(* Properties *)

\* the step is a call made on the handle
Called == nops' = nops + 1

MapOps == {"map_page", "map_large_page", "map_huge_page"}

\* the addresses whose translation the properties compare
Watched == VAddrs \cup {BootVAddr}

\* frames a walk to a PT can need: a PDPT, a PD and a PT
WalkFrames == Cardinality({"PDPT", "PD", "PT"})

\* the 4 KiB pages of [addr, addr + size)
PagesOf(addr, size) == { addr + (PAGE_SIZE * i) : i \in 0 .. ((size - 1) \div PAGE_SIZE) }

RangeUnmapped(m, c, addr, size) ==
    \A a \in PagesOf(addr, size) : Translate(m, c, a) = NotMapped

\* C1: a map_page of a non-null 4 KiB-aligned vaddr that no larger leaf covers,
\* with frames available, returns Ok and vaddr then translates to paddr; an
\* unmap_page of a vaddr mapped by a 4 KiB leaf returns the mapped address and
\* leaves vaddr unmapped.
C1_RoundTrip ==
    [][ /\ ( /\ Called /\ last'.op = "map_page"
             /\ is_aligned_to(last'.vaddr, PAGE_SIZE)
             /\ ~is_null(last'.vaddr)
             /\ MappedAt(mem, cr3, last'.vaddr) \in {"none", "PT"}
             /\ Cardinality(free) >= WalkFrames )
           => ( /\ last'.res = "Ok"
                /\ Translate(mem', cr3', last'.vaddr) = last'.paddr )
        /\ ( /\ Called /\ last'.op = "unmap_page"
             /\ MappedAt(mem, cr3, last'.vaddr) = "PT" )
           => ( /\ last'.res = "Ok"
                /\ last'.val = Translate(mem, cr3, last'.vaddr)
                /\ Translate(mem', cr3', last'.vaddr) = NotMapped )
      ]_vars

\* C2: once a set_pcid call has returned Ok, every later set_pcid call returns
\* AlredyHasPcid and the tag is still the one first assigned.
C2_TagOneShot ==
    [][ (tagged /\ Called /\ last'.op = "set_pcid")
        => (last'.res = "AlredyHasPcid" /\ get_pcid(cr3') = first_tag) ]_vars

\* C3: load returns InvalidPcid exactly when no set_pcid call has succeeded on
\* the handle, and otherwise returns Ok and loads the handle's root value.
C3_ActivationGating ==
    [][ (Called /\ last'.op = "load")
        => /\ (last'.res = "InvalidPcid") <=> ~tagged
           /\ tagged => (last'.res = "Ok" /\ hw_cr3' = cr3) ]_vars

\* C4: map_large_page of a vaddr that is not 2 MiB-aligned fails with
\* InvalidVAddrAlignment and changes no translation (checked where the walk
\* has the frames it can need).
C4_LargeAlignment ==
    [][ ( /\ Called /\ last'.op = "map_large_page"
          /\ ~is_aligned_to(last'.vaddr, LARGE_PAGE_SIZE)
          /\ Cardinality(free) >= WalkFrames )
        => /\ last'.res = "InvalidVAddrAlignment"
           /\ \A v \in Watched : Translate(mem', cr3', v) = Translate(mem, cr3, v) ]_vars

\* C5: every map call with vaddr = 0 fails with InvalidAddress (a huge map on
\* a platform that supports huge pages), map_page of a vaddr that is not
\* 4 KiB-aligned fails with InvalidVAddrAlignment, and a rejected call
\* allocates no frame and writes no entry (checked where the walk has the
\* frames it can need).
C5_NullAndMisaligned ==
    [][ /\ ( /\ Called /\ last'.op \in MapOps
             /\ is_null(last'.vaddr)
             /\ Cardinality(free) >= WalkFrames
             /\ (Called /\ last'.op = "map_huge_page" => huge_ok) )
           => (last'.res = "InvalidAddress" /\ mem' = mem /\ free' = free)
        /\ (Called /\ last'.op = "map_page" /\ ~is_aligned_to(last'.vaddr, PAGE_SIZE))
           => (last'.res = "InvalidVAddrAlignment" /\ mem' = mem /\ free' = free)
      ]_vars

\* C6: without huge-page support every map_huge_page and unmap_huge_page call
\* returns UnsupportedOperation and leaves the tables and the frame allocator
\* as they were.
C6_HugeGating ==
    [][ (~huge_ok /\ Called /\ last'.op \in {"map_huge_page", "unmap_huge_page"})
        => (last'.res = "UnsupportedOperation" /\ mem' = mem /\ free' = free) ]_vars

\* C6 witness: on a platform without huge pages, a huge map was refused on an
\* address space that an earlier call had already changed
C6_Witness ==
    /\ ~huge_ok
    /\ last.op = "map_huge_page"
    /\ last.res = "UnsupportedOperation"
    /\ nops = 2
    /\ mem # BootMem

\* C7: an unmap at a vaddr with no leaf at that size's level, not covered by
\* a larger leaf either, returns NotMapped (checked where the walk has the
\* frames it can need; a huge unmap on a platform that supports huge pages).
C7_UnmapAbsent ==
    [][ /\ ( /\ Called /\ last'.op = "unmap_page"
             /\ MappedAt(mem, cr3, last'.vaddr) = "none"
             /\ Cardinality(free) >= WalkFrames )
           => last'.res = "NotMapped"
        /\ ( /\ Called /\ last'.op = "unmap_large_page"
             /\ MappedAt(mem, cr3, last'.vaddr) \in {"none", "PT"}
             /\ Cardinality(free) >= WalkFrames )
           => last'.res = "NotMapped"
        /\ ( /\ Called /\ last'.op = "unmap_huge_page"
             /\ huge_ok
             /\ MappedAt(mem, cr3, last'.vaddr) \in {"none", "PT", "PD"}
             /\ Cardinality(free) >= WalkFrames )
           => last'.res = "NotMapped"
      ]_vars

\* the searches that passed the argument validation
Searched(l) ==
    l.op = "find_available_region" /\ l.res \in {"Ok", "VAddrRangeUnavailable"}

\* the candidates start + k * alignment below end
Candidates(start, end, alignment) ==
    { a \in { start + (k * alignment) : k \in 0 .. ((end - start) \div alignment) } : a < end }

\* frames the probes of one candidate can need: a PDPT, a PD and one PT a probe
ProbeFrames(size) == 2 + n_huge_pages(size) + n_large_pages(size) + n_pages(size)

\* C8: when find_available_region returns Ok(addr), no page of
\* [addr, addr + size) was mapped when it was called.
C8_SearchSound ==
    [][ (Called /\ last'.op = "find_available_region" /\ last'.res = "Ok")
        => RangeUnmapped(mem, cr3, last'.val, last'.size) ]_vars

\* C9: with valid arguments (and the frames the probes can need)
\* find_available_region returns the lowest candidate whose span is entirely
\* unmapped, and VAddrRangeUnavailable exactly when there is none.
C9_FirstFit ==
    [][ (Called /\ Searched(last') /\ Cardinality(free) >= ProbeFrames(last'.size))
        => LET fits == { a \in Candidates(last'.start, last'.end, last'.alignment) :
                           RangeUnmapped(mem, cr3, a, last'.size) }
           IN  /\ (last'.res = "VAddrRangeUnavailable") <=> (fits = {})
               /\ (last'.res = "Ok") => (fits # {} /\ last'.val = Min(fits)) ]_vars

\* C10: a region returned by find_available_region starts at or after start,
\* is aligned to alignment and ends at or before end.
C10_RegionInRange ==
    [][ (Called /\ last'.op = "find_available_region" /\ last'.res = "Ok")
        => /\ last'.start <= last'.val
           /\ is_aligned_to(last'.val, last'.alignment)
           /\ last'.val + last'.size <= last'.end ]_vars

\* C11: a find_available_region call that repeats the call before it, with
\* the same arguments and no other call between the two, returns the same
\* result: the same address or the same error.
C11_SearchIdempotent ==
    [][ (Called /\ last'.op = "find_available_region" /\ repeated')
        => (last'.res = last.res /\ last'.val = last.val) ]_vars

\* C11 witness: a repeated search found a region, the first of the two having
\* created tables on its way
C11_Witness ==
    /\ repeated
    /\ last.op = "find_available_region"
    /\ last.res = "Ok"
    /\ mem # BootMem
\* the entries of the table at a
Entries(m, a) == { Table(m, a)[i] : i \in DOMAIN Table(m, a) }

\* the tables an entry of the table at a points to
Below(m, a) == { e.addr : e \in { x \in Entries(m, a) : ~x.ps } }

\* Every entry of the hierarchy rooted at c is a pointer to a table (a frame
\* holding one) or a leaf, and leaves are 4 KiB entries of a PT or entries
\* of a PD or a PDPT with the page-size bit.
WellFormed(m, c) ==
    LET root  == get_pml4_paddr(c)
        pdpts == Below(m, root)
        pds   == UNION { Below(m, a) : a \in pdpts }
        pts   == UNION { Below(m, a) : a \in pds }
    IN  /\ \A e \in Entries(m, root) : ~e.ps
        /\ pdpts \cup pds \cup pts \subseteq Frames
        /\ \A a \in pts : \A e \in Entries(m, a) : ~e.ps

TableOps == MapOps \cup {"unmap_page", "unmap_large_page", "unmap_huge_page",
                         "find_available_region"}

\* C13: every map, unmap and search call ends by returning Ok or an error:
\* none ends in the panic of an unwrap of an empty walker level.
C13_NoPanic ==
    (last.op \in TableOps) => (last.res # "Panic" /\ ~halted)
UnmapOps == {"unmap_page", "unmap_large_page", "unmap_huge_page"}

\* C14: after a map or unmap of vaddr that returned Ok on the handle whose
\* root is loaded on the processor, the translation cache holds no entry for
\* vaddr that differs from the tables.
C14_InvalidationAfterEdit ==
    [][ ( /\ Called /\ last'.op \in MapOps \cup UnmapOps
          /\ last'.res = "Ok"
          /\ get_pml4_paddr(hw_cr3) = get_pml4_paddr(cr3) )
        => \A e \in tlb' :
              (e.vaddr = last'.vaddr) => (e.paddr = Translate(mem', hw_cr3', e.vaddr)) ]_vars
\* the entries of m that point to tables are entries of m2
PointersKept(m, m2) ==
    \A f \in Frames : \A i \in DOMAIN m[f] :
        (~m[f][i].ps /\ m[f][i].addr \in Frames)
        => (i \in DOMAIN m2[f] /\ m2[f][i] = m[f][i])

\* the root table of the handle is not a frame the allocator can hand out
RootOwned == get_pml4_paddr(cr3) \notin free

\* C15: on a handle that owns its root, a map call that fails with
\* OutOfMemory leaves every mapped address translating to the same frame with
\* the same flags and adds no leaf; and when frames have been given back, the
\* same map call made again returns Ok and keeps the tables the failed call
\* created.
C15_PartialFailure ==
    [][ /\ ( /\ Called /\ last'.op \in MapOps
                /\ last'.res = "OutOfMemory"
             /\ RootOwned )
           => \A v \in Watched : Leaf(mem', cr3', v) = Leaf(mem, cr3, v)
        /\ ( /\ Called /\ last'.op \in MapOps
                /\ RootOwned
             /\ last.res = "OutOfMemory"
             /\ last.freed
             /\ last.op = last'.op
             /\ last'.vaddr = last.vaddr
             /\ Cardinality(free) >= WalkFrames )
           => (last'.res = "Ok" /\ PointersKept(mem, mem')) ]_vars
\* the tables of the hierarchy rooted at c
Reachable(m, c) ==
    LET root  == get_pml4_paddr(c)
        pdpts == Below(m, root)
        pds   == UNION { Below(m, a) : a \in pdpts }
    IN  {root} \cup pdpts \cup pds \cup UNION { Below(m, a) : a \in pds }

\* the frames the allocator has handed out
Taken == ((Frames \ BootFrames) \ held) \ free

\* the call of p returned Ok and its mapping is not in the tables
Lost(p) ==
    /\ procs.cpu[p].pc = "done"
    /\ procs.cpu[p].res = "Ok"
    /\ Translate(mem, cr3, procs.cpu[p].vaddr) # CpuPAddr

\* a table that was created is not part of the hierarchy
Orphan == \E f \in Taken : f \notin Reachable(mem, cr3)

\* C16: when every map_large_page call runs under the lock of the address
\* space, no mapping reported Ok is missing from the tables and no created
\* table is left outside the hierarchy.
C16_SingleWriter ==
    (procs.sync = "lock") => ((\A p \in Procs : ~Lost(p)) /\ ~Orphan)

\* C16 witness: without the lock both calls returned Ok, the mapping of one
\* is missing and the table it was written to is outside the hierarchy
C16_Witness ==
    /\ procs.sync = "none"
    /\ \A p \in Procs : procs.cpu[p].pc = "done" /\ procs.cpu[p].res = "Ok"
    /\ \E p \in Procs : Lost(p)
    /\ Orphan
\* the results of a search refused for its arguments
Refusals == {"SubPageSizeNotAllowed", "InvalidArgument", "InvalidVAddrAlignment"}

\* C17: find_available_region returns SubPageSizeNotAllowed for a size below
\* 4096, otherwise InvalidArgument for an alignment below 4096, otherwise
\* InvalidVAddrAlignment for a start that is not aligned to alignment, and in
\* the three cases leaves the tables and the frame allocator as they were.
C17_SearchValidation ==
    [][ (Called /\ last'.op = "find_available_region")
        => /\ (last'.size < 4096) => (last'.res = "SubPageSizeNotAllowed")
           /\ (last'.size >= 4096 /\ last'.alignment < 4096)
              => (last'.res = "InvalidArgument")
           /\ ( /\ last'.size >= 4096
                /\ last'.alignment >= 4096
                /\ ~is_aligned_to(last'.start, last'.alignment) )
              => (last'.res = "InvalidVAddrAlignment")
           /\ (last'.res \in Refusals) => (mem' = mem /\ free' = free) ]_vars

\* C17 witness: a search with a size and an alignment below one page was
\* refused for its size, on an address space an earlier call had changed
C17_Witness ==
    /\ last.op = "find_available_region"
    /\ last.size < 4096
    /\ last.alignment < 4096
    /\ last.res = "SubPageSizeNotAllowed"
    /\ mem # BootMem
\* the table the entry idx of the table at a points to
EntryAddr(m, a, idx) == IF idx \in DOMAIN Table(m, a) THEN Table(m, a)[idx].addr ELSE None

\* the walker s.w holds, down to level, the tables on the path of vaddr
Descended(s, vaddr, level) ==
    /\ s.w.pml4 = get_pml4_paddr(s.cr3)
    /\ s.w.pdpt = EntryAddr(s.mem, s.w.pml4, pml4_index(vaddr))
    /\ level \in {"PD", "PT"} => s.w.pd = EntryAddr(s.mem, s.w.pdpt, pdpt_index(vaddr))
    /\ level = "PT" => s.w.pt = EntryAddr(s.mem, s.w.pd, pd_index(vaddr))

\* C18: on the address space an unmap_page call finds, a successful walk of a
\* fresh walker to a level leaves in the walker the tables on the path of
\* vaddr down to that level, the requested level's slot filled; and a second
\* walk_pd leaves the same tables in the walker.
C18_WalkerDescent ==
    [][ (Called /\ last'.op = "unmap_page")
        => /\ \A s \in {walk_pml4(Start, last'.vaddr, {})} :
                 (s.err = "") => Descended(s, last'.vaddr, "PDPT")
           /\ \A s \in {walk_pdpt(Start, last'.vaddr, {})} :
                 (s.err = "") => Descended(s, last'.vaddr, "PD")
           /\ \A s \in {walk_pd(Start, last'.vaddr, {})} :
                 (s.err = "")
                 => /\ Descended(s, last'.vaddr, "PT")
                    /\ \A s2 \in {walk_pd(s, last'.vaddr, {})} :
                          s2.err = "" /\ s2.w = s.w ]_vars
\* the bytes the probes of is_range_available stand for
Probed(size) ==
    (n_huge_pages(size) * HUGE_PAGE_SIZE) + (n_large_pages(size) * LARGE_PAGE_SIZE)
    + (n_pages(size) * PAGE_SIZE)

\* C19: for the size of every search that probed a candidate, the counts of
\* 1 GiB, 2 MiB and 4 KiB probes cover the size and less than one page more.
C19_SizeDecomposition ==
    Searched(last) => (Probed(last.size) >= last.size
                       /\ Probed(last.size) < last.size + PAGE_SIZE)

\* C20: a find_available_region call leaves every entry of every table, the
\* translation of every address and the frames of the allocator as they were.
C20_SearchReadOnly ==
    [][ (Called /\ last'.op = "find_available_region")
        => /\ mem' = mem
           /\ free' = free
           /\ \A v \in Watched : Leaf(mem', cr3', v) = Leaf(mem, cr3, v) ]_vars
\* C21: a set_pcid call, successful or not, leaves get_pml4_paddr() as it
\* was and the root address 4 KiB-aligned, and after a successful
\* set_pcid(pcid) get_pcid() is pcid.
C21_TagKeepsRoot ==
    [][ (Called /\ last'.op = "set_pcid")
        => /\ get_pml4_paddr(cr3') = get_pml4_paddr(cr3)
           /\ is_aligned_to(get_pml4_paddr(cr3'), PAGE_SIZE)
           /\ cr3' = get_pml4_paddr(cr3') + get_pcid(cr3')
           /\ (last'.res = "Ok") => (get_pcid(cr3') = last'.pcid) ]_vars
\* C22: an unmap call of any of the three sizes that returns an error leaves
\* the hierarchy and the frame allocator as they were: it allocates no frame
\* and installs no entry.
C22_UnmapCreatesNothing ==
    [][ (Called /\ last'.op \in UnmapOps /\ last'.res \notin {"Ok", "Panic"})
        => (mem' = mem /\ free' = free) ]_vars
\* C23: for every MemType the flags of get_flags contain Present, Global and
\* WriteThrough; Write is set only for KernelReadWrite; NoExecute is clear only
\* for KernelReadExecute; no intent has Write set with NoExecute clear; and
\* the flags a map call was given from an intent are those of that intent
\* whatever the state of the handle.
C23_NoWritableExecutable ==
    /\ \A mt \in MemTypes :
          /\ get_flags(mt) \subseteq PteFlags
          /\ {"Present", "Global", "WriteThrough"} \subseteq get_flags(mt)
          /\ ("Write" \in get_flags(mt)) <=> (mt = "KernelReadWrite")
          /\ ("NoExecute" \notin get_flags(mt)) <=> (mt = "KernelReadExecute")
          /\ ~("Write" \in get_flags(mt) /\ "NoExecute" \notin get_flags(mt))
    /\ (last.op \in MapOps)
          => /\ \E mt \in MemTypes : last.flags = get_flags(mt)
             /\ ~("Write" \in last.flags /\ "NoExecute" \notin last.flags)

\* A KernelReadWrite mapping was installed: its leaf is writable and not
\* executable.
C23_Witness ==
    /\ last.op = "map_large_page"
    /\ last.res = "Ok"
    /\ last.flags = get_flags("KernelReadWrite")
    /\ Leaf(mem, cr3, last.vaddr) # NoLeaf
    /\ "Write" \in Leaf(mem, cr3, last.vaddr).flags
    /\ "NoExecute" \in Leaf(mem, cr3, last.vaddr).flags

====
